---- MODULE Spec2Model ----
(***************************************************************************)
(* A model of oncorelib/core.py: the OnCore SOAP client.                   *)
(*                                                                         *)
(* Python values are tagged records [t |-> <type name>, v |-> <payload>].  *)
(* A text value (unicode or str) carries a sequence of tokens: a token is  *)
(* either one piece of markup ("<Race>", "</SubjectNo>", ...) or one run   *)
(* of character data.  Concatenation of text is concatenation of token     *)
(* sequences.  A dict is a TLA+ function whose domain is its key set.      *)
(***************************************************************************)
EXTENDS Integers, Sequences, FiniteSets, TLC

VARIABLES pc, call, prepped, request, posts, result, response_xml, ret

vars == <<pc, call, prepped, request, posts, result, response_xml, ret>>

----------------------------------------------------------------------------
(* Bounds of the model.                                                    *)

\* longest list of races in a registration
MaxRaces == 2
\* how many required keys of a registration may be defective at once
MaxDefects == 2
\* how many fields a subject element may lack at once
MaxMissingFields == 1

----------------------------------------------------------------------------
(* Python values.                                                          *)

None == [t |-> "NoneType"]
U(toks) == [t |-> "unicode", v |-> toks]
S(toks) == [t |-> "str", v |-> toks]
I(n) == [t |-> "int", v |-> n]
L(items) == [t |-> "list", v |-> items]

IsText(x) == x.t \in {"unicode", "str"}

\* bool(x)
Truthy(x) ==
  CASE x.t = "NoneType" -> FALSE
    [] x.t \in {"unicode", "str", "list"} -> Len(x.v) > 0
    [] x.t = "int" -> x.v # 0
    [] OTHER -> TRUE

\* a + b on text: the result is unicode as soon as one side is
Concat(a, b) ==
  [t |-> IF a.t = "unicode" \/ b.t = "unicode" THEN "unicode" ELSE "str",
   v |-> a.v \o b.v]

Digit(d) ==
  CASE d = 0 -> "0" [] d = 1 -> "1" [] d = 2 -> "2" [] d = 3 -> "3"
    [] d = 4 -> "4" [] d = 5 -> "5" [] d = 6 -> "6" [] d = 7 -> "7"
    [] d = 8 -> "8" [] d = 9 -> "9"

RECURSIVE Decimal(_)
Decimal(n) == IF n < 10 THEN <<Digit(n)>> ELSE Decimal(n \div 10) \o <<Digit(n % 10)>>

\* unicode(x): text is kept, an integer is written in decimal
ToUnicode(x) ==
  CASE IsText(x) -> U(x.v)
    [] x.t = "int" -> U(Decimal(x.v))
    [] x.t = "NoneType" -> U(<<"None">>)

\* d.get(k)
Get(d, k) == IF k \in DOMAIN d THEN d[k] ELSE None

\* what a call hands back: a value, or an exception that leaves the call
Return(val) == [kind |-> "return", val |-> val]
Raise(exc) == [kind |-> "raise", exc |-> exc]
NoRet == [kind |-> "none"]

----------------------------------------------------------------------------
(* Registration: validation and the XML builder.                           *)

RequiredKeys ==
  <<"primary-identifier", "context", "study-site", "protocol-num",
    "last-name", "first-name", "birthdate", "gender", "races", "ethnicity">>

RequiredKeySet == {RequiredKeys[i] : i \in DOMAIN RequiredKeys}

\* variant: the key list spells birthdate as 'birth-date'
verify_reg_data_misspelt(reg_data) ==
  \A i \in DOMAIN RequiredKeys :
    Truthy(Get(reg_data, IF RequiredKeys[i] = "birthdate" THEN "birth-date"
                         ELSE RequiredKeys[i]))

verify_reg_data(reg_data) ==
  \A i \in DOMAIN RequiredKeys : Truthy(Get(reg_data, RequiredKeys[i]))

OpExisting == <<"ProtocolExistingSubjectRegistrationData">>
OpNew == <<"ProtocolNewSubjectRegistrationData">>

\* variant: tests 'subject_num is not None' where the code tests truthiness
op_element_not_none(subject_num) ==
  IF subject_num.t # "NoneType" THEN U(OpExisting) ELSE U(OpNew)

op_element(subject_num) ==
  IF Truthy(subject_num) THEN U(OpExisting) ELSE U(OpNew)

subject_num_element(subject_num) ==
  IF Truthy(subject_num)
    THEN Concat(Concat(U(<<"<SubjectNo>">>), ToUnicode(subject_num)),
                U(<<"</SubjectNo>">>))
    ELSE S(<< >>)

\* variant: each Race element is put in front of the ones built so far
RECURSIVE race_elements_prepending(_, _, _)
race_elements_prepending(races, i, xml) ==
  IF i > Len(races) THEN xml
  ELSE race_elements_prepending(races, i + 1,
         Concat(Concat(Concat(U(<<"<Race>">>), races[i]), U(<<"</Race>">>)), xml))

\* reduce(lambda xml, race: xml + u'<Race>' + race + u'</Race>', races, '')
RECURSIVE race_elements_from(_, _, _)
race_elements_from(races, i, xml) ==
  IF i > Len(races) THEN xml
  ELSE race_elements_from(races, i + 1,
         Concat(Concat(Concat(xml, U(<<"<Race>">>)), races[i]), U(<<"</Race>">>)))

race_elements(reg_data) == race_elements_from(reg_data["races"].v, 1, S(<< >>))

\* one $NAME of the template, filled in
Element(name, value) ==
  <<"<" \o name \o ">">> \o ToUnicode(value).v \o <<"</" \o name \o ">">>

\* Template(...).substitute(...): the fixed text with every $NAME replaced
RegistrationXml(reg_data, subject_num) ==
  U(  <<"<soapenv:Envelope>", "<soapenv:Header/>", "<soapenv:Body>">>
   \o <<"<sub:">> \o op_element(subject_num).v \o <<">">>
   \o <<"<sub:ProtocolSubjectRegistrationData>">>
   \o Element("Context", reg_data["context"])
   \o <<"<ProtocolSubject>">>
   \o Element("ProtocolNo", reg_data["protocol-num"])
   \o Element("StudySite", reg_data["study-site"])
   \o <<"<Subject>">>
   \o Element("PrimaryIdentifier", reg_data["primary-identifier"])
   \o subject_num_element(subject_num).v
   \o race_elements(reg_data).v
   \o Element("LastName", reg_data["last-name"])
   \o Element("FirstName", reg_data["first-name"])
   \o Element("BirthDate", reg_data["birthdate"])
   \o Element("Gender", reg_data["gender"])
   \o Element("Ethnicity", reg_data["ethnicity"])
   \o <<"</Subject>", "</ProtocolSubject>">>
   \o <<"</sub:ProtocolSubjectRegistrationData>">>
   \o <<"</sub:">> \o op_element(subject_num).v \o <<">">>
   \o <<"</soapenv:Body>", "</soapenv:Envelope>">>)

ProtocolXml(protocol_num) ==
  U(  <<"<soapenv:Envelope>", "<soapenv:Header/>", "<soapenv:Body>">>
   \o <<"<data:ProtocolSearchCriteria>">>
   \o Element("protocolNo", protocol_num)
   \o <<"</data:ProtocolSearchCriteria>">>
   \o <<"</soapenv:Body>", "</soapenv:Envelope>">>)

SubjectSearchXml(primary_id) ==
  U(  <<"<soapenv:Envelope>", "<soapenv:Header/>", "<soapenv:Body>">>
   \o <<"<ser:SubjectSearchData>">>
   \o Element("PrimaryIdentifier", primary_id)
   \o <<"</ser:SubjectSearchData>">>
   \o <<"</soapenv:Body>", "</soapenv:Envelope>">>)

----------------------------------------------------------------------------
(* Response accessors.  A lookup d[k] of a key the dict lacks raises       *)
(* KeyError; Lookup carries that outcome through the chain of subscripts.  *)

Path == <<"structured-data", "soap:Envelope", "soap:Body", "ns7:Subject">>

RECURSIVE Lookup(_, _, _)
Lookup(d, keys, i) ==
  IF i > Len(keys) THEN Return(d)
  ELSE IF keys[i] \in DOMAIN d THEN Lookup(d[keys[i]], keys, i + 1)
  ELSE Raise("KeyError")

_extract_subj_data_elem(subject_data, element) ==
  Lookup(subject_data, Path \o <<element>>, 1)

\* variant: compares the attribute without regard to case
subject_record_exists_caseless(subject_data) ==
  LET nil_flag == _extract_subj_data_elem(subject_data, "@xsi:nil")
  IN  IF nil_flag.kind = "raise" /\ nil_flag.exc = "KeyError" THEN Return(TRUE)
      ELSE IF nil_flag.kind = "raise" THEN nil_flag
      ELSE Return(nil_flag.val.v \notin {<<"true">>, <<"True">>, <<"TRUE">>})

\* variant: without the except clause, KeyError leaves the call
subject_record_exists_uncaught(subject_data) ==
  LET nil_flag == _extract_subj_data_elem(subject_data, "@xsi:nil")
  IN  IF nil_flag.kind = "raise" THEN nil_flag
      ELSE Return(nil_flag.val.v # <<"true">>)

subject_record_exists(subject_data) ==
  LET nil_flag == _extract_subj_data_elem(subject_data, "@xsi:nil")
  IN  IF nil_flag.kind = "raise" /\ nil_flag.exc = "KeyError" THEN Return(TRUE)
      ELSE IF nil_flag.kind = "raise" THEN nil_flag
      ELSE Return(nil_flag.val.v # <<"true">>)

extract_primary_identifier(subject_data) ==
  _extract_subj_data_elem(subject_data, "PrimaryIdentifier")
extract_subject_num(subject_data) == _extract_subj_data_elem(subject_data, "SubjectNo")
extract_first_name(subject_data) == _extract_subj_data_elem(subject_data, "FirstName")
extract_last_name(subject_data) == _extract_subj_data_elem(subject_data, "LastName")
extract_birthdate(subject_data) == _extract_subj_data_elem(subject_data, "BirthDate")
extract_gender(subject_data) == _extract_subj_data_elem(subject_data, "Gender")
extract_ethnicity(subject_data) == _extract_subj_data_elem(subject_data, "Ethnicity")

\* variant: hands back whatever the field holds
extract_races_unwrapped(subject_data) ==
  LET rslt == _extract_subj_data_elem(subject_data, "Race")
  IN  IF rslt.kind = "raise" THEN rslt ELSE Return(rslt.val)

extract_races(subject_data) ==
  LET rslt == _extract_subj_data_elem(subject_data, "Race")
  IN  IF rslt.kind = "raise" THEN rslt
      ELSE IF rslt.val.t = "unicode" THEN Return(L(<<rslt.val>>))
      ELSE Return(rslt.val)

PrepKeys ==
  <<"primary-identifier", "last-name", "first-name", "birthdate", "gender",
    "races", "ethnicity">>

\* variant: the two name extractions change places
PrepValues_names_swapped(subject_data) ==
  <<extract_primary_identifier(subject_data),
    extract_first_name(subject_data),
    extract_last_name(subject_data),
    extract_birthdate(subject_data),
    extract_gender(subject_data),
    extract_races(subject_data),
    extract_ethnicity(subject_data)>>

\* the list literal of prep_subject_data, evaluated left to right
PrepValues(subject_data) ==
  <<extract_primary_identifier(subject_data),
    extract_last_name(subject_data),
    extract_first_name(subject_data),
    extract_birthdate(subject_data),
    extract_gender(subject_data),
    extract_races(subject_data),
    extract_ethnicity(subject_data)>>

\* dict(zip(keys, values)); the first extraction that raises leaves the call
prep_subject_data(subject_data) ==
  LET vals == PrepValues(subject_data)
      bad == {i \in DOMAIN vals : vals[i].kind = "raise"}
  IN  IF bad # {}
        THEN vals[CHOOSE i \in bad : \A j \in bad : i <= j]
        ELSE Return([k \in {PrepKeys[i] : i \in DOMAIN PrepKeys} |->
                       vals[CHOOSE i \in DOMAIN PrepKeys : PrepKeys[i] = k].val])

----------------------------------------------------------------------------
(* Inputs: the registrations a caller may pass.                            *)

RegText ==
  [k \in RequiredKeySet \ {"races"} |->
     CASE k = "primary-identifier" -> U(<<"MRN001">>)
       [] k = "context" -> U(<<"ctx">>)
       [] k = "study-site" -> U(<<"site">>)
       [] k = "protocol-num" -> U(<<"P-1">>)
       [] k = "last-name" -> U(<<"Doe">>)
       [] k = "first-name" -> U(<<"Jane">>)
       [] k = "birthdate" -> U(<<"1970-01-01">>)
       [] k = "gender" -> U(<<"Female">>)
       [] k = "ethnicity" -> U(<<"Non-Hispanic">>)]

\* a race whose text carries markup of its own is not escaped by the builder
RaceTexts == {U(<<"White">>), U(<<"Asian">>), U(<<"x", "</Race>", "<Race>", "y">>)}

SeqsUpTo(set, n) == UNION {[1..m -> set] : m \in 0..n}

RaceLists == SeqsUpTo(RaceTexts, MaxRaces) \ {<< >>}

DefectKinds == {"absent", "none", "empty", "zero"}

Defective(k, kind) ==
  CASE kind = "none" -> None
    [] kind = "empty" -> IF k = "races" THEN L(<< >>) ELSE U(<< >>)
    [] kind = "zero" -> I(0)

\* the registration with the keys of DOMAIN defects made defective
MakeRegData(races, defects, extra) ==
  LET absent == {k \in DOMAIN defects : defects[k] = "absent"}
      keys == (RequiredKeySet \ absent) \cup (IF extra THEN {"middle-name"} ELSE {})
  IN  [k \in keys |->
         IF k \in DOMAIN defects THEN Defective(k, defects[k])
         ELSE IF k = "races" THEN L(races)
         ELSE IF k = "middle-name" THEN U(<<"Q">>)
         ELSE RegText[k]]

DefectSets == {D \in SUBSET RequiredKeySet : D # {} /\ Cardinality(D) <= MaxDefects}

RegDatas ==
     {MakeRegData(r, << >>, e) : r \in RaceLists, e \in BOOLEAN}
  \cup UNION {{MakeRegData(<<U(<<"White">>)>>, d, e) : d \in [D -> DefectKinds], e \in BOOLEAN}
               : D \in DefectSets}

\* subject_num: omitted (the default None), or a value the caller supplies
SubjectNums ==
  {None, I(0), I(7), I(12), U(<< >>), U(<<"S1">>),
   U(<<"1", "</SubjectNo>", "<SubjectNo>", "2">>)}

ProtocolNums == {U(<<"P-1">>), U(<<"P-2">>)}
PrimaryIds == {U(<<"MRN001">>), U(<<"MRN002">>)}

\* the xml argument of a direct _call
RawXmls == {U(<<"<x/>">>), S(<<"<x/>">>), None}

----------------------------------------------------------------------------
(* Inputs: what the service may answer, as xmltodict parses it.            *)

Fields ==
  {"PrimaryIdentifier", "SubjectNo", "FirstName", "LastName", "BirthDate",
   "Gender", "Race", "Ethnicity"}

FieldText ==
  [f \in Fields \ {"Race"} |->
     CASE f = "PrimaryIdentifier" -> U(<<"MRN001">>)
       [] f = "SubjectNo" -> U(<<"S1">>)
       [] f = "FirstName" -> U(<<"Jane">>)
       [] f = "LastName" -> U(<<"Doe">>)
       [] f = "BirthDate" -> U(<<"1970-01-01">>)
       [] f = "Gender" -> U(<<"Female">>)
       [] f = "Ethnicity" -> U(<<"Non-Hispanic">>)]

ParsedRaceTexts == {U(<<"White">>), U(<<"Asian">>)}

\* one Race element parses to its text, repeated ones to the list of texts
ParsedRaces ==
  ParsedRaceTexts
    \cup {L(l) : l \in {q \in SeqsUpTo(ParsedRaceTexts, MaxRaces + 1) : Len(q) >= 2}}

\* the values of the xsi:nil attribute; "absent" stands for no attribute
NilValues == {"absent", "true", "false", "True", ""}

MissingSets ==
  {M \in SUBSET Fields : Cardinality(M) <= MaxMissingFields} \cup {Fields}

SubjectElem(nil, missing, race) ==
  [k \in (Fields \ missing) \cup (IF nil = "absent" THEN {} ELSE {"@xsi:nil"}) |->
     IF k = "@xsi:nil" THEN U(<<nil>>)
     ELSE IF k = "Race" THEN race
     ELSE FieldText[k]]

SubjectElems ==
  {SubjectElem(n, m, r) : n \in NilValues, m \in MissingSets, r \in ParsedRaces}

\* the parsed document down to the subject element, cut short where depth says
Tree(depth, subj) ==
  CASE depth = 0 -> ("html" :> U(<<"Unauthorized">>))
    [] depth = 1 -> ("soap:Envelope" :> ("@xmlns:soap" :> U(<<"ns">>)))
    [] depth = 2 -> ("soap:Envelope" :> ("soap:Body" :> ("soap:Fault" :> U(<<"f">>))))
    [] OTHER -> ("soap:Envelope" :> ("soap:Body" :> ("ns7:Subject" :> subj)))

Trees ==
  {Tree(d, SubjectElem("true", Fields, U(<<"White">>))) : d \in 0..2}
    \cup {Tree(3, s) : s \in SubjectElems}

CallResult(status, xml, tree) ==
  ("status-code" :> I(status)) @@ ("xml" :> xml) @@ ("structured-data" :> tree)

\* what a caller may hand to the accessors: call results, or a dict without
\* the parsed data
SubjectDatas ==
  {CallResult(200, U(<<"doc">>), t) : t \in Trees} \cup {("status-code" :> I(200))}

----------------------------------------------------------------------------
(* The transport's collaborators: the HTTP response, its multipart body    *)
(* and the XML of a part.  A document is kept with the tree xmltodict      *)
(* parses it to; a document that is not well-formed has none.              *)

Malformed == [wellformed |-> FALSE, tree |-> << >>]
Doc(tree) == [wellformed |-> TRUE, tree |-> tree]

Docs ==
  {Malformed,
   Doc(Tree(2, << >>)),
   Doc(Tree(3, SubjectElem("true", Fields, U(<<"White">>)))),
   Doc(Tree(3, SubjectElem("absent", {}, U(<<"White">>))))}

Response(status, multipart, parts) ==
  [status_code |-> status, multipart |-> multipart, parts |-> parts]

Responses ==
  {Response(401, FALSE, << >>), Response(200, TRUE, << >>)}
    \cup {Response(200, TRUE, <<d>>) : d \in Docs}
    \cup {Response(500, TRUE, <<Doc(Tree(2, << >>)), Malformed>>)}

NoResponse == [status_code |-> 0, multipart |-> FALSE, parts |-> << >>]

----------------------------------------------------------------------------
(* The state machine.  One invocation of a public function runs from       *)
(* "idle" to "done"; _call is entered by its callers and then takes its    *)
(* three steps: the POST, the multipart decoding, the XML parsing.         *)

Init ==
  /\ pc = "idle"
  /\ call = [fn |-> "none"]
  /\ prepped = None
  /\ request = None
  /\ posts = 0
  /\ result = NoResponse
  /\ response_xml = Malformed
  /\ ret = NoRet

\* variant: _call without the type check
EnterCall_unchecked(xml) ==
  /\ pc' = "post"
  /\ ret' = NoRet
  /\ request' = xml

\* _call up to the POST: the type check of the request text
EnterCall(xml) ==
  IF xml.t # "unicode"
    THEN /\ pc' = "done"
         /\ ret' = Raise("TypeError")
         /\ request' = None
    ELSE /\ pc' = "post"
         /\ ret' = NoRet
         /\ request' = xml

\* a function that finishes in one step, with what it hands back
Finished(outcome) ==
  /\ pc' = "done"
  /\ ret' = outcome
  /\ request' = None

call_direct(xml) ==
  /\ pc = "idle"
  /\ call' = [fn |-> "_call", xml |-> xml]
  /\ EnterCall(xml)
  /\ UNCHANGED <<prepped, posts, result, response_xml>>

get_protocol(protocol_num) ==
  /\ pc = "idle"
  /\ call' = [fn |-> "get_protocol", protocol_num |-> protocol_num]
  /\ EnterCall(ProtocolXml(protocol_num))
  /\ UNCHANGED <<prepped, posts, result, response_xml>>

get_subject_data(primary_id) ==
  /\ pc = "idle"
  /\ call' = [fn |-> "get_subject_data", primary_id |-> primary_id]
  /\ EnterCall(SubjectSearchXml(primary_id))
  /\ UNCHANGED <<prepped, posts, result, response_xml>>

\* variant: xml_only is ignored and the call is always made
register_always_calling(reg_data, subject_num, xml_only) ==
  /\ pc = "idle"
  /\ call' = [fn |-> "register_subject_to_protocol", reg_data |-> reg_data,
              subject_num |-> subject_num, xml_only |-> xml_only]
  /\ IF ~verify_reg_data(reg_data)
       THEN /\ prepped' = None
            /\ Finished(Raise("ValueError"))
       ELSE /\ prepped' = RegistrationXml(reg_data, subject_num)
            /\ EnterCall(prepped')
  /\ UNCHANGED <<posts, result, response_xml>>

register_subject_to_protocol(reg_data, subject_num, xml_only) ==
  /\ pc = "idle"
  /\ call' = [fn |-> "register_subject_to_protocol", reg_data |-> reg_data,
              subject_num |-> subject_num, xml_only |-> xml_only]
  /\ IF ~verify_reg_data(reg_data)
       THEN /\ prepped' = None
            /\ Finished(Raise("ValueError"))
       ELSE /\ prepped' = RegistrationXml(reg_data, subject_num)
            /\ IF xml_only THEN Finished(Return(prepped'))
               ELSE EnterCall(prepped')
  /\ UNCHANGED <<posts, result, response_xml>>

\* variant: a POST that raises is tried once more
Post_retrying ==
  /\ pc = "post"
  /\ posts' = posts + 1
  /\ \/ /\ pc' = IF posts = 0 THEN "post" ELSE "done"
        /\ ret' = IF posts = 0 THEN NoRet ELSE Raise("ConnectionError")
        /\ UNCHANGED result
     \/ /\ \E r \in Responses : result' = r
        /\ pc' = "decode"
        /\ UNCHANGED ret
  /\ UNCHANGED <<call, prepped, request, response_xml>>

\* requests.post: the one network call; it answers or raises
Post ==
  /\ pc = "post"
  /\ posts' = posts + 1
  /\ \/ /\ pc' = "done"
        /\ ret' = Raise("ConnectionError")
        /\ UNCHANGED result
     \/ /\ \E r \in Responses : result' = r
        /\ pc' = "decode"
        /\ UNCHANGED ret
  /\ UNCHANGED <<call, prepped, request, response_xml>>

\* MultipartDecoder.from_response(result), then parts[0].content
Decode ==
  /\ pc = "decode"
  /\ IF ~result.multipart
       THEN /\ pc' = "done"
            /\ ret' = Raise("NonMultipartContentTypeException")
            /\ UNCHANGED response_xml
       ELSE IF Len(result.parts) = 0
       THEN /\ pc' = "done"
            /\ ret' = Raise("IndexError")
            /\ UNCHANGED response_xml
       ELSE /\ pc' = "parse"
            /\ response_xml' = result.parts[1]
            /\ UNCHANGED ret
  /\ UNCHANGED <<call, prepped, request, posts, result>>

\* xmltodict.parse(response_xml), then the call result
Parse ==
  /\ pc = "parse"
  /\ pc' = "done"
  /\ ret' = IF ~response_xml.wellformed THEN Raise("ExpatError")
            ELSE Return(CallResult(result.status_code, response_xml, response_xml.tree))
  /\ UNCHANGED <<call, prepped, request, posts, result, response_xml>>

CallSubjectRecordExists(subject_data) ==
  /\ pc = "idle"
  /\ call' = [fn |-> "subject_record_exists", subject_data |-> subject_data]
  /\ Finished(subject_record_exists(subject_data))
  /\ UNCHANGED <<prepped, posts, result, response_xml>>

CallExtractRaces(subject_data) ==
  /\ pc = "idle"
  /\ call' = [fn |-> "extract_races", subject_data |-> subject_data]
  /\ Finished(extract_races(subject_data))
  /\ UNCHANGED <<prepped, posts, result, response_xml>>

CallExtractSubjectNum(subject_data) ==
  /\ pc = "idle"
  /\ call' = [fn |-> "extract_subject_num", subject_data |-> subject_data]
  /\ Finished(extract_subject_num(subject_data))
  /\ UNCHANGED <<prepped, posts, result, response_xml>>

CallPrepSubjectData(subject_data) ==
  /\ pc = "idle"
  /\ call' = [fn |-> "prep_subject_data", subject_data |-> subject_data]
  /\ Finished(prep_subject_data(subject_data))
  /\ UNCHANGED <<prepped, posts, result, response_xml>>

CallVerifyRegData(reg_data) ==
  /\ pc = "idle"
  /\ call' = [fn |-> "verify_reg_data", reg_data |-> reg_data]
  /\ Finished(Return(verify_reg_data(reg_data)))
  /\ UNCHANGED <<prepped, posts, result, response_xml>>

\* the caller has the outcome; the next invocation starts afresh
Finish ==
  /\ pc = "done"
  /\ pc' = "idle"
  /\ call' = [fn |-> "none"]
  /\ prepped' = None
  /\ request' = None
  /\ posts' = 0
  /\ result' = NoResponse
  /\ response_xml' = Malformed
  /\ ret' = NoRet

\* a caller starts an invocation only when none is running
Idle == pc = "idle"

Next ==
  \/ Idle /\ \E x \in RawXmls : call_direct(x)
  \/ Idle /\ \E n \in ProtocolNums : get_protocol(n)
  \/ Idle /\ \E i \in PrimaryIds : get_subject_data(i)
  \/ Idle /\ \E rd \in RegDatas, sn \in SubjectNums, xo \in BOOLEAN :
               register_subject_to_protocol(rd, sn, xo)
  \/ Idle /\ \E sd \in SubjectDatas : CallSubjectRecordExists(sd)
  \/ Idle /\ \E sd \in SubjectDatas : CallExtractRaces(sd)
  \/ Idle /\ \E sd \in SubjectDatas : CallExtractSubjectNum(sd)
  \/ Idle /\ \E sd \in SubjectDatas : CallPrepSubjectData(sd)
  \/ Idle /\ \E rd \in RegDatas : CallVerifyRegData(rd)
  \/ Post
  \/ Decode
  \/ Parse
  \/ Finish

Spec == Init /\ [][Next]_vars

----------------------------------------------------------------------------
(* Reading a built XML back: the elements it contains.                     *)

Count(toks, tok) == Cardinality({i \in DOMAIN toks : toks[i] = tok})

\* the texts of the elements opened by open and closed by close, in order
RECURSIVE ElementTexts(_, _, _, _)
ElementTexts(toks, i, open, close) ==
  IF i > Len(toks) THEN << >>
  ELSE IF toks[i] = open
    THEN LET j == CHOOSE j \in (i + 1)..(Len(toks) + 1) :
                    /\ j = Len(toks) + 1 \/ toks[j] = close
                    /\ \A k \in (i + 1)..(j - 1) : toks[k] # close
         IN  <<SubSeq(toks, i + 1, j - 1)>> \o ElementTexts(toks, j + 1, open, close)
    ELSE ElementTexts(toks, i + 1, open, close)

\* the names that follow the tag opener lead ("<sub:" or "</sub:")
NamesAfter(toks, lead) ==
  {toks[i + 1] : i \in {j \in 1..(Len(toks) - 1) : toks[j] = lead}}

\* the operation element of the XML opens and closes under this one name
OperationIs(toks, name) ==
  /\ NamesAfter(toks, "<sub:") = {name[1]}
  /\ NamesAfter(toks, "</sub:") = {name[1]}

Mentions(toks, name) == \E i \in DOMAIN toks : toks[i] = name[1]

Markup == {"<Race>", "</Race>", "<SubjectNo>", "</SubjectNo>"}

\* a text without markup of its own
Plain(x) == IsText(x) => \A i \in DOMAIN x.v : x.v[i] \notin Markup

InRegister == call.fn = "register_subject_to_protocol"
Built == prepped.t = "unicode"

\* every required key is there with a non-empty, non-None, non-zero value
Populated(reg_data) ==
  \A k \in RequiredKeySet :
    /\ k \in DOMAIN reg_data
    /\ reg_data[k].t # "NoneType"
    /\ reg_data[k].t \in {"unicode", "str", "list"} => reg_data[k].v # << >>
    /\ reg_data[k].t = "int" => reg_data[k].v # 0

----------------------------------------------------------------------------
----------------------------------------------------------------------------
\* the registration carries a list of races and its other keys are in order
RacesPassed(reg_data) ==
  /\ "races" \in DOMAIN reg_data
  /\ reg_data["races"].t = "list"
  /\ \A k \in RequiredKeySet \ {"races"} : k \in DOMAIN reg_data /\ Truthy(reg_data[k])

RaceTextsOf(reg_data) ==
  [i \in DOMAIN reg_data["races"].v |-> reg_data["races"].v[i].v]

----------------------------------------------------------------------------
(* C3: verify_reg_data returns true if and only if each of the ten         *)
(* required keys is present with a truthy value (non-empty text, non-empty *)
(* list, not None); one missing or empty key makes it false, and keys      *)
(* beyond the ten do not change the result.                                *)
C3_VerifyIffPopulated ==
  (call.fn = "verify_reg_data" /\ pc = "done") =>
    /\ ret = Return(Populated(call.reg_data))
    /\ ret = Return(Populated([k \in DOMAIN call.reg_data \cap RequiredKeySet |->
                                 call.reg_data[k]]))

\* a registration with an extra key and an empty list of races was refused
C3_Witness ==
  /\ call.fn = "verify_reg_data" /\ pc = "done"
  /\ "middle-name" \in DOMAIN call.reg_data
  /\ RequiredKeySet \subseteq DOMAIN call.reg_data
  /\ call.reg_data["races"] = L(<< >>)
  /\ \A k \in RequiredKeySet \ {"races"} : Truthy(call.reg_data[k])
  /\ ret = Return(FALSE)

----------------------------------------------------------------------------
\* the parsed response reaches down to a subject element
HasSubject(subject_data) ==
  /\ "structured-data" \in DOMAIN subject_data
  /\ "soap:Envelope" \in DOMAIN subject_data["structured-data"]
  /\ "soap:Body" \in DOMAIN subject_data["structured-data"]["soap:Envelope"]
  /\ "ns7:Subject" \in DOMAIN subject_data["structured-data"]["soap:Envelope"]["soap:Body"]

SubjectOf(subject_data) ==
  subject_data["structured-data"]["soap:Envelope"]["soap:Body"]["ns7:Subject"]

(* C4: subject_record_exists returns true when the subject element has no  *)
(* xsi:nil attribute, false when the attribute is the text "true", and     *)
(* true when the attribute holds any other text.                           *)
C4_ExistsByNilAttribute ==
  (call.fn = "subject_record_exists" /\ pc = "done" /\ HasSubject(call.subject_data)) =>
    LET subj == SubjectOf(call.subject_data)
    IN  /\ "@xsi:nil" \notin DOMAIN subj => ret = Return(TRUE)
        /\ "@xsi:nil" \in DOMAIN subj =>
             /\ subj["@xsi:nil"] = U(<<"true">>) => ret = Return(FALSE)
             /\ subj["@xsi:nil"] # U(<<"true">>) => ret = Return(TRUE)

\* the attribute was there with another spelling of true
C4_Witness ==
  /\ call.fn = "subject_record_exists" /\ pc = "done"
  /\ HasSubject(call.subject_data)
  /\ "@xsi:nil" \in DOMAIN SubjectOf(call.subject_data)
  /\ SubjectOf(call.subject_data)["@xsi:nil"] = U(<<"True">>)
  /\ ret = Return(TRUE)

----------------------------------------------------------------------------
HasField(subject_data, f) ==
  HasSubject(subject_data) /\ f \in DOMAIN SubjectOf(subject_data)

----------------------------------------------------------------------------
(* C6: caller input errors fail before any I/O: a registration that fails  *)
(* validation raises ValueError, and request text that is not unicode      *)
(* raises TypeError in _call; in both cases nothing has been posted and no *)
(* XML has been built or returned, whatever subject_num and xml_only are.  *)
C6_InputErrorsBeforeIO ==
  /\ (InRegister /\ ~Populated(call.reg_data)) =>
       /\ pc = "done" /\ ret = Raise("ValueError")
       /\ posts = 0 /\ request = None /\ ~Built
  /\ (call.fn = "_call" /\ call.xml.t # "unicode") =>
       /\ pc = "done" /\ ret = Raise("TypeError")
       /\ posts = 0 /\ request = None /\ ~Built

\* xml_only was asked for with a subject number, and validation still refused
C6_Witness ==
  /\ InRegister /\ pc = "done"
  /\ "gender" \notin DOMAIN call.reg_data
  /\ call.xml_only /\ call.subject_num = U(<<"S1">>)
  /\ ret = Raise("ValueError") /\ posts = 0

----------------------------------------------------------------------------
(* C7: with xml_only and a valid registration no network call is made and  *)
(* the value returned is the built XML itself, the very text the same call *)
(* without xml_only hands to the transport.                                *)
C7_XmlOnlyReturnsRequestText ==
  (InRegister /\ Populated(call.reg_data)) =>
    LET xml == RegistrationXml(call.reg_data, call.subject_num)
    IN  /\ call.xml_only =>
             /\ pc = "done" /\ posts = 0 /\ request = None
             /\ ret = Return(xml) /\ ret.val = prepped
        /\ ~call.xml_only =>
             /\ request = xml /\ request = prepped
             /\ ret.kind = "return" => ret.val # xml

\* the XML of an existing-subject registration came back without a call
C7_Witness ==
  /\ InRegister /\ pc = "done" /\ call.xml_only
  /\ call.subject_num = I(7)
  /\ ret.kind = "return" /\ ret.val.t = "unicode"
  /\ Count(ret.val.v, "<SubjectNo>") = 1
  /\ posts = 0

----------------------------------------------------------------------------
PrepFields ==
  {"PrimaryIdentifier", "LastName", "FirstName", "BirthDate", "Gender", "Race",
   "Ethnicity"}

\* the same response with the xsi:nil attribute of its subject element set
\* to nil, or taken away
WithNil(subject_data, nil) ==
  LET subj == SubjectOf(subject_data)
      kept == [k \in DOMAIN subj \ {"@xsi:nil"} |-> subj[k]]
      elem == IF nil = "absent" THEN kept ELSE kept @@ ("@xsi:nil" :> U(<<nil>>))
  IN  [subject_data EXCEPT
         !["structured-data"]["soap:Envelope"]["soap:Body"]["ns7:Subject"] = elem]

(* C8: prep_subject_data returns a flat mapping with exactly the seven     *)
(* keys primary-identifier, last-name, first-name, birthdate, gender,      *)
(* races, ethnicity, each holding the field of the subject element it is   *)
(* named for (Race as a list), no two swapped; the existence check is not  *)
(* consulted, so the xsi:nil attribute does not change the result.         *)
C8_PrepSevenFields ==
  (/\ call.fn = "prep_subject_data" /\ pc = "done"
   /\ HasSubject(call.subject_data)
   /\ PrepFields \subseteq DOMAIN SubjectOf(call.subject_data)) =>
    LET subj == SubjectOf(call.subject_data)
    IN  /\ ret.kind = "return"
        /\ DOMAIN ret.val = {"primary-identifier", "last-name", "first-name",
                             "birthdate", "gender", "races", "ethnicity"}
        /\ ret.val["primary-identifier"] = subj["PrimaryIdentifier"]
        /\ ret.val["last-name"] = subj["LastName"]
        /\ ret.val["first-name"] = subj["FirstName"]
        /\ ret.val["birthdate"] = subj["BirthDate"]
        /\ ret.val["gender"] = subj["Gender"]
        /\ ret.val["ethnicity"] = subj["Ethnicity"]
        /\ ret.val["races"].t = "list"
        /\ ret.val["races"].v = IF subj["Race"].t = "unicode" THEN <<subj["Race"]>>
                                ELSE subj["Race"].v
        /\ \A n \in NilValues : prep_subject_data(WithNil(call.subject_data, n)) = ret

\* a subject element marked nil that still carries its fields was normalised
C8_Witness ==
  /\ call.fn = "prep_subject_data" /\ pc = "done"
  /\ HasSubject(call.subject_data)
  /\ PrepFields \subseteq DOMAIN SubjectOf(call.subject_data)
  /\ "@xsi:nil" \in DOMAIN SubjectOf(call.subject_data)
  /\ SubjectOf(call.subject_data)["@xsi:nil"] = U(<<"true">>)
  /\ ret.kind = "return"
  /\ ret.val["races"] = L(<<U(<<"White">>)>>)
  /\ ret.val["last-name"] = U(<<"Doe">>)

----------------------------------------------------------------------------
\* the invocations that go through the transport
Transported ==
  \/ call.fn \in {"get_protocol", "get_subject_data"}
  \/ InRegister /\ Populated(call.reg_data) /\ ~call.xml_only

(* C9: every invocation of get_protocol, get_subject_data or of            *)
(* register_subject_to_protocol (valid data, no xml_only) makes exactly    *)
(* one POST: a call result is returned only after that one POST, and when  *)
(* the POST, the multipart decoding or the XML parsing fails the error     *)
(* leaves the call with no second attempt and no call result.              *)
C9_ExactlyOnePost ==
  Transported =>
    /\ posts <= 1
    /\ pc = "post" => posts = 0 /\ ret = NoRet
    /\ pc \in {"decode", "parse"} => posts = 1 /\ ret = NoRet
    /\ pc = "done" =>
         /\ posts = 1
         /\ ret.kind \in {"return", "raise"}
         /\ ret.kind = "raise" =>
              ret.exc \in {"ConnectionError", "NonMultipartContentTypeException",
                           "IndexError", "ExpatError"}
         /\ ret.kind = "return" =>
              /\ result.multipart /\ response_xml.wellformed
              /\ ret.val["structured-data"] = response_xml.tree
              /\ ret.val["status-code"] = I(result.status_code)

\* the answer of the one POST did not parse, and the error left the call
C9_Witness ==
  /\ call.fn = "get_subject_data" /\ pc = "done"
  /\ posts = 1
  /\ ret = Raise("ExpatError")

----------------------------------------------------------------------------
(* C10: subject_record_exists returns true, and signals no error, whenever *)
(* a key of the path structured-data / soap:Envelope / soap:Body /         *)
(* ns7:Subject / @xsi:nil is missing: a response with no subject element,  *)
(* no body or no envelope is reported like a subject without the attribute.*)
C10_MissingKeyMeansExists ==
  (call.fn = "subject_record_exists" /\ pc = "done") =>
    LET sd == call.subject_data
        missing ==
          \/ ~HasSubject(sd)
          \/ "@xsi:nil" \notin DOMAIN SubjectOf(sd)
    IN  missing => ret = Return(TRUE)

\* a response with an envelope and no body was reported as an existing record
C10_Witness ==
  /\ call.fn = "subject_record_exists" /\ pc = "done"
  /\ "structured-data" \in DOMAIN call.subject_data
  /\ "soap:Envelope" \in DOMAIN call.subject_data["structured-data"]
  /\ "soap:Body" \notin DOMAIN call.subject_data["structured-data"]["soap:Envelope"]
  /\ ret = Return(TRUE)

====
